---- MODULE Spec2Model ----
(***************************************************************************)
(* Model of password_manager.py: the master-password gate                  *)
(* (ensure_registered, login) and the credential store (load_db, save_db,  *)
(* next_id, find_by_id, add/list/search/edit/delete, menu_loop, main).     *)
(*                                                                         *)
(* Text is a sequence of one-character strings, so that str.strip,         *)
(* str.lower, " ".join and the `in` substring test are computed.  A file   *)
(* holds JSON text: an object is an ordered list of <<key, value>> pairs.  *)
(* In memory a dict is a record [keys, val]: keys is the order in which     *)
(* the dict holds its keys, which json.dump follows, and val maps each key *)
(* to its value.  The store and every item are such dicts.  The values in  *)
(* a file have the types the program writes: texts for the six fields,     *)
(* integers for id and next_id, a list of objects for items.               *)
(***************************************************************************)
EXTENDS Integers, Sequences, FiniteSets, TLC

\* ------------------------------------------------------------------ bounds
\* Add is offered while db.next_id <= MaxId (ids 1..MaxId are issued).
MaxId == 2
\* The wall clock (whole seconds) runs from 0 to MaxClock.
MaxClock == 1

\* ------------------------------------------------------------------- text
\* Texts are over Latin-1 (U+0000..U+00FF).
\* the characters int() skips around a literal: tab, line feed, vertical tab,
\* form feed, carriage return, space, U+0085 and U+00A0
IntWhitespace == {"\t", "\n", "", "\f", "\r", " ", "", " "}

\* the characters str.strip() removes: those, and U+001C..U+001F
Whitespace == IntWhitespace \cup {"", "", "", ""}

Digits == <<"0", "1", "2", "3", "4", "5", "6", "7", "8", "9">>

RECURSIVE LStrip(_)
LStrip(s) == IF s # <<>> /\ Head(s) \in Whitespace THEN LStrip(Tail(s)) ELSE s

RECURSIVE RStrip(_)
RStrip(s) ==
    IF s # <<>> /\ s[Len(s)] \in Whitespace
    THEN RStrip(SubSeq(s, 1, Len(s) - 1))
    ELSE s

\* str.strip()
Strip(s) == RStrip(LStrip(s))

\* the capital letters of Latin-1: A..Z, U+00C0..U+00D6 and U+00D8..U+00DE
Upper ==
    <<"A", "B", "C", "D", "E", "F", "G", "H", "I", "J", "K", "L", "M",
      "N", "O", "P", "Q", "R", "S", "T", "U", "V", "W", "X", "Y", "Z",
      "À", "Á", "Â", "Ã", "Ä", "Å", "Æ", "Ç", "È", "É", "Ê", "Ë", "Ì",
      "Í", "Î", "Ï", "Ð", "Ñ", "Ò", "Ó", "Ô", "Õ", "Ö", "Ø", "Ù", "Ú",
      "Û", "Ü", "Ý", "Þ">>

\* their small letters, in the same order
LowerOf ==
    <<"a", "b", "c", "d", "e", "f", "g", "h", "i", "j", "k", "l", "m",
      "n", "o", "p", "q", "r", "s", "t", "u", "v", "w", "x", "y", "z",
      "à", "á", "â", "ã", "ä", "å", "æ", "ç", "è", "é", "ê", "ë", "ì",
      "í", "î", "ï", "ð", "ñ", "ò", "ó", "ô", "õ", "ö", "ø", "ù", "ú",
      "û", "ü", "ý", "þ">>

\* str.lower() of one character: a capital letter gives its small letter,
\* every other character gives itself
LowerMap ==
    [c \in {Upper[i] : i \in 1..Len(Upper)} |->
        LowerOf[CHOOSE i \in 1..Len(Upper) : Upper[i] = c]]

LowerChar(c) == IF c \in DOMAIN LowerMap THEN LowerMap[c] ELSE c

\* str.lower()
Lower(s) == [i \in 1..Len(s) |-> LowerChar(s[i])]

\* `needle in hay` for str
Contains(hay, needle) ==
    \E i \in 0..(Len(hay) - Len(needle)) :
        SubSeq(hay, i + 1, i + Len(needle)) = needle

RECURSIVE Join(_, _)
\* sep.join(parts)
Join(sep, parts) ==
    IF parts = <<>> THEN <<>>
    ELSE IF Len(parts) = 1 THEN parts[1]
    ELSE parts[1] \o sep \o Join(sep, Tail(parts))

DigitValue(c) == (CHOOSE i \in 1..10 : Digits[i] = c) - 1

IsDigit(c) == \E i \in 1..10 : Digits[i] = c

RECURSIVE DigitsValue(_)
DigitsValue(s) ==
    IF s = <<>> THEN 0
    ELSE 10 * DigitsValue(SubSeq(s, 1, Len(s) - 1)) + DigitValue(s[Len(s)])

RECURSIVE IntLStrip(_)
IntLStrip(s) == IF s # <<>> /\ Head(s) \in IntWhitespace THEN IntLStrip(Tail(s)) ELSE s

RECURSIVE IntRStrip(_)
IntRStrip(s) ==
    IF s # <<>> /\ s[Len(s)] \in IntWhitespace
    THEN IntRStrip(SubSeq(s, 1, Len(s) - 1))
    ELSE s

\* an int literal without the blanks int() skips around it
IntStrip(s) == IntRStrip(IntLStrip(s))

\* the body of an int literal: blanks around it and its sign removed
Unsigned(s) ==
    LET t == IntStrip(s) IN
    IF t # <<>> /\ Head(t) \in {"+", "-"} THEN Tail(t) ELSE t

\* the digits of the body, the underscores that group them left out
Ungrouped(s) == SelectSeq(Unsigned(s), IsDigit)

\* sys.get_int_max_str_digits(): int() refuses a literal of more digits
MaxStrDigits == 4300

\* int(text) raises ValueError unless text is, between blanks, an optional sign
\* and a run of at most MaxStrDigits digits, in which single underscores may
\* stand between digits
IntOk(s) ==
    LET b == Unsigned(s) IN
    /\ b # <<>>
    /\ IsDigit(b[1])
    /\ IsDigit(b[Len(b)])
    /\ \A i \in 1..Len(b) : IsDigit(b[i]) \/ b[i] = "_"
    /\ \A i \in 1..(Len(b) - 1) : ~(b[i] = "_" /\ b[i + 1] = "_")
    /\ Len(Ungrouped(s)) <= MaxStrDigits

\* int(text)
IntOf(s) ==
    IF IntStrip(s) # <<>> /\ Head(IntStrip(s)) = "-" THEN 0 - DigitsValue(Ungrouped(s))
    ELSE DigitsValue(Ungrouped(s))

\* hashlib.sha256(text.encode("utf-8")).hexdigest() on the texts the model enters
sha256(s) ==
    CASE s = <<>> -> "e3b0c44298fc1c149afbf4c8996fb92427ae41e4649b934ca495991b7852b855"
      [] s = <<"m">> -> "62c66a7a5dd70c3146618063c344e531e6d4b59e379808443ce962b3abd63c5a"
      [] s = <<"x">> -> "2d711642b726b04401627ca9fbac32f5c8530fb1903cc4db02258717921a4881"
      [] s = <<"M">> -> "08f271887ce94707da822d5263bae19d5519cb3614e0daedc4c7ce5dab7473f1"

\* ------------------------------------------------------------------- JSON
\* A file: absent, of size 0, not parsable, not decodable, or holding a JSON
\* object.
AbsentFile == [kind |-> "absent", obj |-> <<>>]
EmptyFile == [kind |-> "empty", obj |-> <<>>]
GarbageFile == [kind |-> "garbage", obj |-> <<>>]

\* a file whose bytes are not UTF-8
UndecodableFile == [kind |-> "undecodable", obj |-> <<>>]

\* `k in obj` for a JSON object as json.load gives it
HasKey(obj, k) == \E i \in 1..Len(obj) : obj[i][1] = k

\* obj[k]: of the pairs of that name in the text, json.load keeps the last
Get(obj, k) ==
    obj[CHOOSE i \in 1..Len(obj) :
            obj[i][1] = k /\ \A j \in (i + 1)..Len(obj) : obj[j][1] # k][2]

\* `k in d` for a dict
DictHas(d, k) == k \in DOMAIN d.val

\* d.get(k, default)
DictGet(d, k, default) == IF k \in DOMAIN d.val THEN d.val[k] ELSE default

\* d[k] = v: a key the dict has keeps its place, a new key goes last
DictSet(d, k, v) ==
    [keys |-> IF k \in DOMAIN d.val THEN d.keys ELSE Append(d.keys, k),
     val |-> [x \in DOMAIN d.val \cup {k} |-> IF x = k THEN v ELSE d.val[x]]]

\* read_json lets an error other than json.JSONDecodeError through: the bytes
\* of the file are not UTF-8 and json.load raises UnicodeDecodeError
read_jsonRaises(file) == file.kind = "undecodable"

\* read_json(path, default): the object parsed from the file, or default
read_json(file, default) ==
    IF file.kind \in {"absent", "empty"} THEN default
    ELSE IF file.kind = "json" THEN file.obj
    ELSE default

\* write_json(path, data): the file after the write
write_json(obj) == [kind |-> "json", obj |-> obj]

\* the keys of a JSON object in the order of their first appearance
KeysOf(o) ==
    LET First(i) == \A j \in 1..(i - 1) : o[j][1] # o[i][1]
        firsts == SelectSeq([i \in 1..Len(o) |-> i], First)
    IN  [n \in 1..Len(firsts) |-> o[firsts[n]][1]]

\* json.load of an object: a dict with the keys in the order of their first
\* pair in the text and, for a key given twice, the value of its last pair
ParseObj(o) ==
    [keys |-> KeysOf(o), val |-> [k \in {o[i][1] : i \in 1..Len(o)} |-> Get(o, k)]]

\* json.dump of a dict: a pair for each key, in the dict's order
DumpObj(d) == [i \in 1..Len(d.keys) |-> <<d.keys[i], d.val[d.keys[i]]>>]

\* json.dump of an item dict
DumpItem(it) == DumpObj(it)

\* json.dump of the store dict
DumpDb(d) ==
    DumpObj(IF DictHas(d, "items")
            THEN [d EXCEPT !.val.items = [i \in 1..Len(@) |-> DumpItem(@[i])]]
            ELSE d)

\* the keys of the item dict add_entry builds, in the order of the literal
ItemKeys ==
    <<"id", "name", "username", "password", "auth_key", "website", "notes",
      "updated_at">>

\* json.load of an item object; for an object with add_entry's keys in
\* add_entry's order, ParseObj(o) written out
ParseItem(o) ==
    IF [i \in 1..Len(o) |-> o[i][1]] = ItemKeys
    THEN [keys |-> ItemKeys,
          val |-> [id |-> o[1][2], name |-> o[2][2], username |-> o[3][2],
                   password |-> o[4][2], auth_key |-> o[5][2], website |-> o[6][2],
                   notes |-> o[7][2], updated_at |-> o[8][2]]]
    ELSE ParseObj(o)

\* json.load of the store object
ParseDb(o) ==
    IF HasKey(o, "items")
    THEN [ParseObj(o) EXCEPT !.val.items = [i \in 1..Len(@) |-> ParseItem(@[i])]]
    ELSE ParseObj(o)

\* ------------------------------------------------------------------ state
VARIABLES
    cfgFile,    \* config.json
    dbFile,     \* passwords.json
    pc,         \* where the process is: main, register, login, login_prompt, load,
                \* menu, add, list, search, edit, delete, pause, exit0, exit1,
                \* crash (ended by an uncaught error)
    db,         \* menu_loop's local db (the dict load_db returned)
    attempts,   \* login's loop: the prompts issued so far (0 outside login)
    now,        \* the wall clock, in whole seconds
    out,        \* what the running operation reported: [msg, rows, id]
    inp,        \* the running handler's locals, as read and stripped
    issued,     \* history: the ids next_id returned to add_entry, in order
    accessed,   \* history: passwords.json was read or written in this run
    loggedIn,   \* history: login() returned in this run
    cfgWritten  \* history: config.json was written in this run

vars ==
    <<cfgFile, dbFile, pc, db, attempts, now, out, inp, issued, accessed, loggedIn,
      cfgWritten>>

\* login's loop as it would be with one pass more
LoginTriesOneMore == 3 + 1

\* range(3) in login
LoginTries == 3

\* menu_loop's db before its first load_db()
NoDb == [keys |-> <<"next_id", "items">>, val |-> [next_id |-> 0, items |-> <<>>]]

\* {"next_id": 1, "items": []}
FreshDb == [keys |-> <<"next_id", "items">>, val |-> [next_id |-> 1, items |-> <<>>]]

NoOut == [msg |-> "", rows |-> <<>>, id |-> 0]

Said(m) == [msg |-> m, rows |-> <<>>, id |-> 0]

NoInp ==
    [op |-> "none", eid |-> <<>>, flag |-> <<>>, keyword |-> <<>>,
     name |-> <<>>, username |-> <<>>, password |-> <<>>, auth_key |-> <<>>,
     website |-> <<>>, notes |-> <<>>]

\* datetime.now().isoformat(timespec="seconds"): the clock cut to whole seconds
now_iso == now

\* ---------------------------------------------------------------- inputs
\* what is typed at "Create master password: "
CreateInputs == {<<>>, <<" ">>, <<"m">>, <<" ", "m">>}

\* what is typed at "Confirm master password: " and "Enter master password: "
MasterInputs == {<<>>, <<" ">>, <<"m">>, <<" ", "m">>, <<"x">>, <<"M">>}

\* what is typed at "Choose an option: "
ChoiceInputs ==
    {<<"1">>, <<"2">>, <<"3">>, <<"4">>, <<"5">>, <<"6">>, <<"\t", "1", " ">>,
     <<"7">>, <<>>}

Fields(n, u, p, k, w, t) ==
    [name |-> n, username |-> u, password |-> p, auth_key |-> k, website |-> w,
     notes |-> t]

\* what is typed at add_entry's six prompts
AddInputs ==
    { Fields(<<>>, <<>>, <<>>, <<>>, <<>>, <<>>),
      Fields(<<"G", "m">>, <<" ", "a", "l">>, <<"p", "1">>, <<"k">>, <<"w">>, <<"n", " ">>) }

\* what is typed at "Enter ID to edit: " and "Enter ID to delete: "
IdInputs ==
    {<<"1">>, <<" ", "2">>, <<"3">>, <<"1", "_", "2">>, <<"x">>, <<>>, <<"-", "1">>}

\* what is typed at "(y/N): "
YesNoInputs == {<<"y">>, <<" ", "Y">>, <<"N">>, <<>>}

\* ----------------------------------------------------- registration, login
\* cfg.get("master_hash") is truthy
HasMasterHash(cfg) == HasKey(cfg, "master_hash") /\ Get(cfg, "master_hash") # ""

\* ensure_registered as it would be without the early return
EnsureRegisteredAlways ==
    /\ pc = "main"
    /\ pc' = "register"
    /\ UNCHANGED <<cfgFile, dbFile, db, attempts, now, out, inp, issued, accessed,
                   loggedIn, cfgWritten>>

\* ensure_registered up to its return or its first prompt
EnsureRegistered ==
    /\ pc = "main"
    /\ LET cfg == read_json(cfgFile, <<>>) IN
        pc' = IF read_jsonRaises(cfgFile) THEN "crash"
              ELSE IF HasMasterHash(cfg) THEN "login" ELSE "register"
    /\ UNCHANGED <<cfgFile, dbFile, db, attempts, now, out, inp, issued, accessed,
                   loggedIn, cfgWritten>>

\* the config as it would be were the hash written under another key than the
\* one read
NewConfigOtherKey(pw1) == << <<"hash", sha256(pw1)>>, <<"created_at", now_iso>> >>

\* the config ensure_registered writes for the accepted password
NewConfig(pw1) == << <<"master_hash", sha256(pw1)>>, <<"created_at", now_iso>> >>

\* one pass of ensure_registered's while loop: two prompts, then continue or
\* break, write config.json and return
RegisterPrompt ==
    /\ pc = "register"
    /\ \E raw1 \in CreateInputs, raw2 \in MasterInputs :
        LET pw1 == Strip(raw1)
            pw2 == Strip(raw2)
        IN  IF pw1 = <<>> \/ pw1 # pw2
            THEN UNCHANGED <<cfgFile, pc, cfgWritten>>
            ELSE /\ cfgFile' = write_json(NewConfig(pw1))
                 /\ cfgWritten' = TRUE
                 /\ pc' = "login"
    /\ UNCHANGED <<dbFile, db, attempts, now, out, inp, issued, accessed, loggedIn>>

\* login up to its first prompt: reads config.json, sys.exit(1) without a hash
LoginStart ==
    /\ pc = "login"
    /\ LET cfg == read_json(cfgFile, <<>>) IN
        pc' = IF read_jsonRaises(cfgFile) THEN "crash"
              ELSE IF ~HasMasterHash(cfg) THEN "exit1" ELSE "login_prompt"
    /\ attempts' = 0
    /\ UNCHANGED <<cfgFile, dbFile, db, now, out, inp, issued, accessed, loggedIn,
                   cfgWritten>>

\* sha256(pw) == cfg["master_hash"]; cfg is what LoginStart read, and nothing
\* writes config.json in between
PasswordMatches(pw) == sha256(pw) = Get(read_json(cfgFile, <<>>), "master_hash")

\* login as it would be without the sys.exit(1) after the loop
AfterMismatchNoExit(n) == IF n >= LoginTries THEN "load" ELSE "login_prompt"

\* where login goes after a prompt that did not match
AfterMismatch(n) == IF n >= LoginTries THEN "exit1" ELSE "login_prompt"

\* login as it would be were the lockout written to config.json before
\* sys.exit(1)
LoginAttemptLocks ==
    /\ pc = "login_prompt"
    /\ attempts < LoginTries
    /\ \E raw \in MasterInputs :
        LET pw == Strip(raw) IN
        /\ inp' = [NoInp EXCEPT !.op = "login", !.password = pw]
        /\ attempts' = attempts + 1
        /\ IF PasswordMatches(pw)
           THEN pc' = "load" /\ loggedIn' = TRUE /\ UNCHANGED cfgFile
           ELSE /\ pc' = AfterMismatch(attempts + 1)
                /\ cfgFile' = IF attempts + 1 >= LoginTries
                              THEN write_json(Append(cfgFile.obj, <<"locked", now_iso>>))
                              ELSE cfgFile
                /\ UNCHANGED loggedIn
    /\ UNCHANGED <<dbFile, db, now, out, issued, accessed, cfgWritten>>

\* one pass of login's for loop; after the last pass, sys.exit(1)
LoginAttempt ==
    /\ pc = "login_prompt"
    /\ attempts < LoginTries
    /\ \E raw \in MasterInputs :
        LET pw == Strip(raw) IN
        /\ inp' = [NoInp EXCEPT !.op = "login", !.password = pw]
        /\ attempts' = attempts + 1
        /\ IF PasswordMatches(pw)
           THEN pc' = "load" /\ loggedIn' = TRUE
           ELSE pc' = AfterMismatch(attempts + 1) /\ UNCHANGED loggedIn
    /\ UNCHANGED <<cfgFile, dbFile, db, now, out, issued, accessed, cfgWritten>>

\* --------------------------------------------------------- load, save, ids
\* load_db as it would be were a store without items taken for no store
load_dbResetEmpty(file) ==
    LET o == read_json(file, <<>>) IN
    IF Len(o) = 0 \/ ~HasKey(o, "items") \/ ~HasKey(o, "next_id")
       \/ Len(Get(o, "items")) = 0
    THEN [db |-> FreshDb, file |-> write_json(DumpDb(FreshDb)),
          raised |-> read_jsonRaises(file)]
    ELSE [db |-> ParseDb(o), file |-> file, raised |-> FALSE]

\* load_db: [db |-> the dict returned, file |-> passwords.json afterwards,
\*          raised |-> read_json's error came through instead]
load_db(file) ==
    LET o == read_json(file, <<>>) IN
    IF Len(o) = 0 \/ ~HasKey(o, "items") \/ ~HasKey(o, "next_id")
    THEN [db |-> FreshDb, file |-> write_json(DumpDb(FreshDb)),
          raised |-> read_jsonRaises(file)]
    ELSE [db |-> ParseDb(o), file |-> file, raised |-> FALSE]

\* save_db: passwords.json afterwards
save_db(d) == write_json(DumpDb(d))

RECURSIVE MaxItemId(_)
MaxItemId(items) ==
    IF items = <<>> THEN 0
    ELSE IF Head(items).val.id > MaxItemId(Tail(items)) THEN Head(items).val.id
    ELSE MaxItemId(Tail(items))

\* next_id as it would be were the id taken from the items left in the store
next_idFromItems(d) ==
    [nid |-> MaxItemId(d.val.items) + 1,
     db |-> DictSet(d, "next_id", MaxItemId(d.val.items) + 2)]

\* next_id as it would be without the increment
next_idNoIncrement(d) == [nid |-> DictGet(d, "next_id", 1), db |-> d]

\* next_id: [nid |-> the id returned, db |-> the dict afterwards]
next_id(d) ==
    [nid |-> DictGet(d, "next_id", 1),
     db |-> DictSet(d, "next_id", DictGet(d, "next_id", 1) + 1)]

\* find_by_id: the position of the first item with that id, 0 for None
find_by_id(d, eid) ==
    LET items == DictGet(d, "items", <<>>) IN
    IF \E i \in 1..Len(items) : DictHas(items[i], "id") /\ items[i].val.id = eid
    THEN CHOOSE i \in 1..Len(items) :
            /\ DictHas(items[i], "id") /\ items[i].val.id = eid
            /\ \A j \in 1..(i - 1) : ~(DictHas(items[j], "id") /\ items[j].val.id = eid)
    ELSE 0

\* main's load_db() between login() and menu_loop()
LoadDbMain ==
    /\ pc = "load"
    /\ IF load_db(dbFile).raised
       THEN pc' = "crash" /\ UNCHANGED dbFile
       ELSE pc' = "menu" /\ dbFile' = load_db(dbFile).file
    /\ accessed' = TRUE
    /\ inp' = NoInp
    /\ attempts' = 0
    /\ UNCHANGED <<cfgFile, db, now, out, issued, loggedIn, cfgWritten>>

\* ------------------------------------------------------------------- menu
\* the branch menu_loop takes for a choice
Dispatch(choice) ==
    CASE choice = <<"1">> -> "add"
      [] choice = <<"2">> -> "list"
      [] choice = <<"3">> -> "search"
      [] choice = <<"4">> -> "edit"
      [] choice = <<"5">> -> "delete"
      [] choice = <<"6">> -> "exit0"
      [] OTHER -> "pause"

\* one pass of menu_loop up to the branch: the choice is read, then load_db()
MenuChoice(choices) ==
    /\ pc = "menu"
    /\ \E raw \in choices :
        LET choice == Strip(raw)
            r == load_db(dbFile)
        IN  IF r.raised
            THEN pc' = "crash" /\ UNCHANGED <<db, dbFile, out>>
            ELSE /\ Dispatch(choice) = "add" => DictGet(r.db, "next_id", 1) <= MaxId
                 /\ db' = r.db
                 /\ dbFile' = r.file
                 /\ pc' = Dispatch(choice)
                 /\ out' = IF Dispatch(choice) = "pause" THEN Said("Invalid choice.")
                           ELSE IF Dispatch(choice) = "exit0" THEN Said("Goodbye!")
                           ELSE NoOut
    /\ accessed' = TRUE
    /\ UNCHANGED <<cfgFile, attempts, now, inp, issued, loggedIn, cfgWritten>>

\* pause(): Enter is pressed and the loop starts over
Pause ==
    /\ pc = "pause"
    /\ pc' = "menu"
    /\ out' = NoOut
    /\ inp' = NoInp
    /\ UNCHANGED <<cfgFile, dbFile, db, attempts, now, issued, accessed, loggedIn,
                   cfgWritten>>

\* the process has ended (sys.exit(1), main returned, or an error came
\* through) and is started again
StartRun ==
    /\ pc \in {"exit0", "exit1", "crash"}
    /\ pc' = "main"
    /\ db' = NoDb
    /\ attempts' = 0
    /\ out' = NoOut
    /\ inp' = NoInp
    /\ accessed' = FALSE
    /\ loggedIn' = FALSE
    /\ cfgWritten' = FALSE
    /\ UNCHANGED <<cfgFile, dbFile, now, issued>>

\* a second passes
Tick ==
    /\ now < MaxClock
    /\ now' = now + 1
    /\ UNCHANGED <<cfgFile, dbFile, pc, db, attempts, out, inp, issued, accessed,
                   loggedIn, cfgWritten>>

\* ------------------------------------------------------------------- CRUD
\* add_entry's six locals, as read and stripped
AddLocals(in) ==
    [name |-> Strip(in.name), username |-> Strip(in.username),
     password |-> Strip(in.password), auth_key |-> Strip(in.auth_key),
     website |-> Strip(in.website), notes |-> Strip(in.notes)]

\* the item dict add_entry builds
NewItem(nid, l, t) ==
    [keys |-> ItemKeys,
     val |-> [id |-> nid, name |-> l.name, username |-> l.username,
              password |-> l.password, auth_key |-> l.auth_key,
              website |-> l.website, notes |-> l.notes, updated_at |-> t]]

\* add_entry as it would be were the id read after next_id's increment
add_entryIdAfterIncrement(d, in, t) ==
    LET r == next_id(d)
        item == NewItem(r.db.val.next_id, AddLocals(in), t)
    IN  [db |-> [r.db EXCEPT !.val.items = Append(@, item)], id |-> r.db.val.next_id]

\* add_entry as it would be were the item put first in the list
add_entryPrepend(d, in, t) ==
    LET r == next_id(d)
        item == NewItem(r.nid, AddLocals(in), t)
    IN  [db |-> [r.db EXCEPT !.val.items = <<item>> \o @], id |-> r.nid]

\* add_entry: [db |-> the dict afterwards, id |-> the id reported]
add_entry(d, in, t) ==
    LET r == next_id(d)
        item == NewItem(r.nid, AddLocals(in), t)
    IN  [db |-> [r.db EXCEPT !.val.items = Append(@, item)], id |-> r.nid]

AddEntry ==
    /\ pc = "add"
    /\ \E in \in AddInputs :
        LET r == add_entry(db, in, now_iso) IN
        /\ db' = r.db
        /\ dbFile' = save_db(r.db)
        /\ issued' = Append(issued, r.id)
        /\ out' = [msg |-> "Added entry", rows |-> <<>>, id |-> r.id]
        /\ inp' = [NoInp EXCEPT !.op = "add",
                                !.name = AddLocals(in).name,
                                !.username = AddLocals(in).username,
                                !.password = AddLocals(in).password,
                                !.auth_key = AddLocals(in).auth_key,
                                !.website = AddLocals(in).website,
                                !.notes = AddLocals(in).notes]
    /\ pc' = "pause"
    /\ UNCHANGED <<cfgFile, attempts, now, accessed, loggedIn, cfgWritten>>

\* fmt_updated of a time now_iso gave: "%Y-%m-%d %H:%M", the seconds cut off
fmt_updated(t) == t \div 60

\* fmt_updated(it.get("updated_at", ""))
UpdatedCell(it) == IF DictHas(it, "updated_at") THEN fmt_updated(it.val.updated_at) ELSE <<>>

RECURSIVE InsertById(_, _)
\* x put after the items of the sorted list whose key is not greater (stable)
InsertById(sorted, x) ==
    IF sorted = <<>> THEN <<x>>
    ELSE IF DictGet(Head(sorted), "id", 0) <= DictGet(x, "id", 0)
         THEN <<Head(sorted)>> \o InsertById(Tail(sorted), x)
    ELSE <<x>> \o sorted

\* list_entries as it would be without sorted()
SortByIdNot(items) == items

RECURSIVE SortById(_)
\* sorted(items, key=lambda x: x.get("id", 0))
SortById(items) ==
    IF items = <<>> THEN <<>>
    ELSE InsertById(SortById(SubSeq(items, 1, Len(items) - 1)), items[Len(items)])

\* the row list_entries builds for an item
ListRow(it) ==
    <<DictGet(it, "id", <<>>), DictGet(it, "name", <<>>), DictGet(it, "username", <<>>),
      DictGet(it, "password", <<>>), DictGet(it, "auth_key", <<>>),
      DictGet(it, "website", <<>>), DictGet(it, "notes", <<>>), UpdatedCell(it)>>

\* list_entries: what it reports
list_entries(d) ==
    LET items == SortById(DictGet(d, "items", <<>>)) IN
    IF items = <<>> THEN Said("No entries found.")
    ELSE [msg |-> "table", rows |-> [i \in 1..Len(items) |-> ListRow(items[i])],
          id |-> 0]

ListEntries ==
    /\ pc = "list"
    /\ out' = list_entries(db)
    /\ inp' = [NoInp EXCEPT !.op = "list"]
    /\ pc' = "pause"
    /\ UNCHANGED <<cfgFile, dbFile, db, attempts, now, issued, accessed, loggedIn,
                   cfgWritten>>

\* the haystack as it would be with the password and the auth key in it
HaystackWithSecret(it) ==
    Lower(Join(<<" ">>, <<DictGet(it, "name", <<>>), DictGet(it, "username", <<>>),
                          DictGet(it, "password", <<>>), DictGet(it, "auth_key", <<>>),
                          DictGet(it, "website", <<>>), DictGet(it, "notes", <<>>)>>))

\* the text search_entries looks the keyword up in
Haystack(it) ==
    Lower(Join(<<" ">>, <<DictGet(it, "name", <<>>), DictGet(it, "username", <<>>),
                          DictGet(it, "website", <<>>), DictGet(it, "notes", <<>>)>>))

RECURSIVE Matching(_, _)
\* the items whose haystack holds the keyword, in the order of the list
Matching(items, keyword) ==
    IF items = <<>> THEN <<>>
    ELSE IF Contains(Haystack(Head(items)), keyword)
         THEN <<Head(items)>> \o Matching(Tail(items), keyword)
         ELSE Matching(Tail(items), keyword)

\* the row search_entries builds for a result
SearchRow(it) ==
    <<it.val.id, it.val.name, it.val.username, it.val.website, it.val.notes,
      UpdatedCell(it)>>

\* it["id"], it["name"], it["username"], it["website"] or it["notes"] raises
\* KeyError
SearchRowRaises(it) ==
    ~({"id", "name", "username", "website", "notes"} \subseteq DOMAIN it.val)

\* search_entries ends in KeyError: a result lacks a key of the table, and
\* nothing is printed
search_entriesRaises(d, raw) ==
    LET results == Matching(DictGet(d, "items", <<>>), Lower(Strip(raw))) IN
    /\ Lower(Strip(raw)) # <<>>
    /\ \E i \in 1..Len(results) : SearchRowRaises(results[i])

\* search_entries: what it reports
search_entries(d, raw) ==
    LET keyword == Lower(Strip(raw))
        results == Matching(DictGet(d, "items", <<>>), keyword)
    IN  IF keyword = <<>> THEN Said("Keyword cannot be empty.")
        ELSE IF results = <<>> THEN Said("No matching entries.")
        ELSE IF search_entriesRaises(d, raw) THEN NoOut
        ELSE [msg |-> "table", rows |-> [i \in 1..Len(results) |-> SearchRow(results[i])],
              id |-> 0]

\* what is typed at "Enter keyword"
KeywordInputs ==
    {<<>>, <<" ">>, <<"G">>, <<"a", "l">>, <<"p", "1">>, <<"k">>, <<"z">>,
     <<" ", "M", " ", "a">>, <<"g", "m", "a", "l">>}

SearchEntries ==
    /\ pc = "search"
    /\ \E raw \in KeywordInputs :
        /\ out' = search_entries(db, raw)
        /\ inp' = [NoInp EXCEPT !.op = "search", !.keyword = Lower(Strip(raw))]
        /\ pc' = IF search_entriesRaises(db, raw) THEN "crash" ELSE "pause"
    /\ UNCHANGED <<cfgFile, dbFile, db, attempts, now, issued, accessed, loggedIn,
                   cfgWritten>>

\* the answer to a "(y/N): " prompt, as compared with "y"
Answer(raw) == Lower(Strip(raw))

\* edit_entry's locals as they would be were the password prompt not under
\* `if change_pw == "y":`
EditLocalsAlwaysAsks(in) ==
    [name |-> Strip(in.name), username |-> Strip(in.username),
     password |-> Strip(in.password),
     auth_key |-> Strip(in.auth_key), website |-> Strip(in.website),
     notes |-> Strip(in.notes)]

\* edit_entry's six locals: each prompt's text stripped; the password prompt is
\* reached only after "y", else password = ""
EditLocals(in) ==
    [name |-> Strip(in.name), username |-> Strip(in.username),
     password |-> IF Answer(in.flag) = <<"y">> THEN Strip(in.password) ELSE <<>>,
     auth_key |-> Strip(in.auth_key), website |-> Strip(in.website),
     notes |-> Strip(in.notes)]

NoLocals == Fields(<<>>, <<>>, <<>>, <<>>, <<>>, <<>>)

\* the conditional assignment as it would be without its `if new:`
ApplyFieldAlways(it, key, new) == DictSet(it, key, new)

\* `if new: it[key] = new`: the item afterwards
ApplyField(it, key, new) == IF new # <<>> THEN DictSet(it, key, new) ELSE it

\* the six assignments as they would be were the last without its `if notes:`
ApplyEditNotesAlways(it, l) ==
    LET a == ApplyField(it, "name", l.name)
        b == ApplyField(a, "username", l.username)
        c == ApplyField(b, "password", l.password)
        e == ApplyField(c, "auth_key", l.auth_key)
        f == ApplyField(e, "website", l.website)
    IN  DictSet(f, "notes", l.notes)

\* the item after edit_entry's six conditional assignments
ApplyEdit(it, l) ==
    LET a == ApplyField(it, "name", l.name)
        b == ApplyField(a, "username", l.username)
        c == ApplyField(b, "password", l.password)
        e == ApplyField(c, "auth_key", l.auth_key)
        f == ApplyField(e, "website", l.website)
    IN  ApplyField(f, "notes", l.notes)

\* `changed` as it would be were it set only when a new value differs from the
\* item's
EditChangedByValue(it, l) ==
    \/ l.name # <<>> /\ l.name # DictGet(it, "name", <<>>)
    \/ l.username # <<>> /\ l.username # DictGet(it, "username", <<>>)
    \/ l.password # <<>> /\ l.password # DictGet(it, "password", <<>>)
    \/ l.auth_key # <<>> /\ l.auth_key # DictGet(it, "auth_key", <<>>)
    \/ l.website # <<>> /\ l.website # DictGet(it, "website", <<>>)
    \/ l.notes # <<>> /\ l.notes # DictGet(it, "notes", <<>>)

\* edit_entry's flag `changed` after the six conditional assignments to item it
EditChanged(it, l) ==
    \/ l.name # <<>>
    \/ l.username # <<>>
    \/ l.password # <<>>
    \/ l.auth_key # <<>>
    \/ l.website # <<>>
    \/ l.notes # <<>>

\* edit_entry as it would be without its save_db(db)
edit_entryNoSave(d, rawId, in, t) ==
    LET idText == Strip(rawId)
        i == find_by_id(d, IntOf(idText))
        l == EditLocals(in)
    IN  IF ~IntOk(idText)
        THEN [db |-> d, saved |-> FALSE, msg |-> "Invalid ID.", locals |-> NoLocals,
              asked |-> FALSE]
        ELSE IF i = 0
        THEN [db |-> d, saved |-> FALSE, msg |-> "Entry not found.",
              locals |-> NoLocals, asked |-> FALSE]
        ELSE IF EditChanged(d.val.items[i], l)
        THEN [db |-> [d EXCEPT !.val.items[i] =
                        DictSet(ApplyEdit(d.val.items[i], l), "updated_at", t)],
              saved |-> FALSE, msg |-> "Entry updated.", locals |-> l, asked |-> TRUE]
        ELSE [db |-> [d EXCEPT !.val.items[i] = ApplyEdit(d.val.items[i], l)],
              saved |-> FALSE, msg |-> "No changes made.", locals |-> l,
              asked |-> TRUE]

\* edit_entry: [db |-> the dict afterwards, saved |-> save_db was called,
\*              msg |-> what was printed, locals |-> the six locals, asked |-> the
\*              field prompts were reached]
edit_entry(d, rawId, in, t) ==
    LET idText == Strip(rawId)
        i == find_by_id(d, IntOf(idText))
        l == EditLocals(in)
    IN  IF ~IntOk(idText)
        THEN [db |-> d, saved |-> FALSE, msg |-> "Invalid ID.", locals |-> NoLocals,
              asked |-> FALSE]
        ELSE IF i = 0
        THEN [db |-> d, saved |-> FALSE, msg |-> "Entry not found.",
              locals |-> NoLocals, asked |-> FALSE]
        ELSE IF EditChanged(d.val.items[i], l)
        THEN [db |-> [d EXCEPT !.val.items[i] =
                        DictSet(ApplyEdit(d.val.items[i], l), "updated_at", t)],
              saved |-> TRUE, msg |-> "Entry updated.", locals |-> l, asked |-> TRUE]
        ELSE [db |-> [d EXCEPT !.val.items[i] = ApplyEdit(d.val.items[i], l)],
              saved |-> FALSE, msg |-> "No changes made.", locals |-> l,
              asked |-> TRUE]

\* edit_entry gets past its two early returns and prompts for the fields
EditAsks(d, rawId) == IntOk(Strip(rawId)) /\ find_by_id(d, IntOf(Strip(rawId))) # 0

\* nothing is typed: the field prompts are not reached
NoEditInput ==
    [name |-> <<>>, username |-> <<>>, flag |-> <<>>, password |-> <<>>,
     auth_key |-> <<>>, website |-> <<>>, notes |-> <<>>]

EditEntry(ids, inputs) ==
    /\ pc = "edit"
    /\ \E rawId \in ids :
       \E in \in IF EditAsks(db, rawId) THEN inputs ELSE {NoEditInput} :
        LET r == edit_entry(db, rawId, in, now_iso) IN
        /\ db' = r.db
        /\ dbFile' = IF r.saved THEN save_db(r.db) ELSE dbFile
        /\ out' = Said(r.msg)
        /\ inp' = [NoInp EXCEPT !.op = "edit",
                                !.eid = Strip(rawId),
                                !.flag = IF r.asked THEN Answer(in.flag) ELSE <<>>,
                                !.name = r.locals.name,
                                !.username = r.locals.username,
                                !.password = r.locals.password,
                                !.auth_key = r.locals.auth_key,
                                !.website = r.locals.website,
                                !.notes = r.locals.notes]
    /\ pc' = "pause"
    /\ UNCHANGED <<cfgFile, attempts, now, issued, accessed, loggedIn, cfgWritten>>

RECURSIVE WithoutOthers(_, _)
\* the filter as it would be with == for !=
WithoutOthers(items, eid) ==
    IF items = <<>> THEN <<>>
    ELSE IF DictHas(Head(items), "id") /\ Head(items).val.id = eid
         THEN <<Head(items)>> \o WithoutOthers(Tail(items), eid)
    ELSE WithoutOthers(Tail(items), eid)

RECURSIVE Without(_, _)
\* [x for x in items if x.get("id") != eid]
Without(items, eid) ==
    IF items = <<>> THEN <<>>
    ELSE IF ~(DictHas(Head(items), "id") /\ Head(items).val.id = eid)
         THEN <<Head(items)>> \o Without(Tail(items), eid)
    ELSE Without(Tail(items), eid)

\* delete_entry as it would be without the return after "Deletion cancelled."
delete_entryNoConfirm(d, rawId, rawConfirm) ==
    LET idText == Strip(rawId)
        eid == IntOf(idText)
    IN  IF ~IntOk(idText)
        THEN [db |-> d, saved |-> FALSE, msg |-> "Invalid ID.", asked |-> FALSE]
        ELSE IF find_by_id(d, eid) = 0
        THEN [db |-> d, saved |-> FALSE, msg |-> "Entry not found.", asked |-> FALSE]
        ELSE IF Answer(rawConfirm) = <<"y">>
        THEN [db |-> [d EXCEPT !.val.items = Without(@, eid)], saved |-> TRUE,
              msg |-> "Entry deleted.", asked |-> TRUE]
        ELSE [db |-> [d EXCEPT !.val.items = Without(@, eid)], saved |-> TRUE,
              msg |-> "Deletion cancelled.", asked |-> TRUE]

\* delete_entry: [db |-> the dict afterwards, saved |-> save_db was called,
\*                msg |-> what was printed, asked |-> the confirmation was asked]
delete_entry(d, rawId, rawConfirm) ==
    LET idText == Strip(rawId)
        eid == IntOf(idText)
    IN  IF ~IntOk(idText)
        THEN [db |-> d, saved |-> FALSE, msg |-> "Invalid ID.", asked |-> FALSE]
        ELSE IF find_by_id(d, eid) = 0
        THEN [db |-> d, saved |-> FALSE, msg |-> "Entry not found.", asked |-> FALSE]
        ELSE IF Answer(rawConfirm) = <<"y">>
        THEN [db |-> [d EXCEPT !.val.items = Without(@, eid)], saved |-> TRUE,
              msg |-> "Entry deleted.", asked |-> TRUE]
        ELSE [db |-> d, saved |-> FALSE, msg |-> "Deletion cancelled.", asked |-> TRUE]

DeleteEntry ==
    /\ pc = "delete"
    /\ \E rawId \in IdInputs, rawConfirm \in YesNoInputs :
        LET r == delete_entry(db, rawId, rawConfirm) IN
        /\ db' = r.db
        /\ dbFile' = IF r.saved THEN save_db(r.db) ELSE dbFile
        /\ out' = Said(r.msg)
        /\ inp' = [NoInp EXCEPT !.op = "delete",
                                !.eid = Strip(rawId),
                                !.flag = IF r.asked THEN Answer(rawConfirm) ELSE <<>>]
    /\ pc' = "pause"
    /\ UNCHANGED <<cfgFile, attempts, now, issued, accessed, loggedIn, cfgWritten>>

\* ----------------------------------------------------------------- inputs
EditFields(n, u, f, p, k, w, t) ==
    [name |-> n, username |-> u, flag |-> f, password |-> p, auth_key |-> k,
     website |-> w, notes |-> t]

\* what is typed at edit_entry's prompts in the whole-program specification
EditInputs ==
    { EditFields(<<>>, <<>>, <<"n">>, <<"q">>, <<>>, <<>>, <<>>),
      EditFields(<<" ", "b", " ">>, <<>>, <<>>, <<>>, <<>>, <<>>, <<>>),
      EditFields(<<"G", "m">>, <<"a", "l">>, <<" ", "Y">>, <<"p", "1">>, <<"k">>,
                 <<"w">>, <<"n">>) }

\* what is typed at edit_entry's prompts in the edit specification: every
\* field blank or not, independently; after "n" the password is what would
\* have been typed had the prompt come
EditInputsAll ==
    { EditFields(n, u, fp[1], fp[2], k, w, t) :
        n \in {<<" ">>, <<"G", "m">>, <<" ", "b", " ">>},
        u \in {<<>>, <<"a", "l">>},
        fp \in { <<(<<"n">>), (<<"q">>)>>, <<(<<" ", "Y">>), (<<>>)>>,
                 <<(<<" ", "Y">>), (<<"p", "1">>)>>, <<(<<" ", "Y">>), (<<"q">>)>> },
        k \in {<<>>, <<"k">>},
        w \in {<<>>, <<"w">>},
        t \in {<<>>, <<"n">>} }

\* the ids typed in the edit specification: item 1, no item, no number
EditIdInputs == {<<"1">>, <<"0", "_", "9">>, <<"x">>}

\* --------------------------------------------------------- specifications
Init ==
    /\ cfgFile \in {AbsentFile, EmptyFile, GarbageFile}
    /\ dbFile \in {AbsentFile, EmptyFile, GarbageFile}
    /\ pc = "main"
    /\ db = NoDb
    /\ attempts = 0
    /\ now = 0
    /\ out = NoOut
    /\ inp = NoInp
    /\ issued = <<>>
    /\ accessed = FALSE
    /\ loggedIn = FALSE
    /\ cfgWritten = FALSE

Next ==
    \/ EnsureRegistered
    \/ RegisterPrompt
    \/ LoginStart
    \/ LoginAttempt
    \/ LoadDbMain
    \/ MenuChoice(ChoiceInputs)
    \/ AddEntry
    \/ ListEntries
    \/ SearchEntries
    \/ EditEntry(IdInputs, EditInputs)
    \/ DeleteEntry
    \/ Pause
    \/ StartRun
    \/ Tick

Spec == Init /\ [][Next]_vars

\* The edit specification: the process is logged in and at the menu, the store
\* holds the two items two different Adds at second 0 left, and only Edit is
\* chosen, with every combination of blank and non-blank fields.
InitEdit ==
    /\ cfgFile = [kind |-> "json",
                  obj |-> << <<"master_hash", sha256(<<"m">>)>>, <<"created_at", 0>> >>]
    /\ \E a \in AddInputs : \E b \in AddInputs \ {a} :
        /\ db = add_entry(add_entry(FreshDb, a, 0).db, b, 0).db
        /\ dbFile = save_db(db)
    /\ pc = "menu"
    /\ attempts = 0
    /\ now = 0
    /\ out = NoOut
    /\ inp = NoInp
    /\ issued = <<1, 2>>
    /\ accessed = TRUE
    /\ loggedIn = TRUE
    /\ cfgWritten = FALSE

NextEdit ==
    \/ MenuChoice({<<"4">>})
    \/ EditEntry(EditIdInputs, EditInputsAll)
    \/ Pause
    \/ Tick

SpecEdit == InitEdit /\ [][NextEdit]_vars

\* The load specification: passwords.json is whatever was left on disk before
\* the first run, also files this program did not write: an object without
\* one of its keys, a store whose items are not in the order of their ids, a
\* store whose keys are items, next_id in that order, a store with a third
\* key and an item with a ninth, a store whose item lacks keys, a file that is
\* not text; config.json is absent or not text. Nothing is added or edited.
LoadItems ==
    << DumpItem(NewItem(2, AddLocals(Fields(<<"G", "m">>, <<"a", "l">>, <<"p", "1">>,
                                            <<"k">>, <<"w">>, <<"n">>)), 0)),
       DumpItem(NewItem(1, AddLocals(Fields(<<"b">>, <<>>, <<"q">>, <<>>, <<>>,
                                            <<>>)), 0)) >>

\* an item with its keys in another order than add_entry's and a ninth key
ForeignItem ==
    << <<"name", <<"b">>>>, <<"id", 1>>, <<"username", <<>>>>, <<"password", <<"q">>>>,
       <<"auth_key", <<>>>>, <<"tag", 7>>, <<"website", <<"w">>>>, <<"notes", <<>>>>,
       <<"updated_at", 0>> >>

\* an item without password, auth_key, website and updated_at
SparseItem ==
    << <<"id", 1>>, <<"name", <<"b">>>>, <<"username", <<>>>>, <<"notes", <<>>>> >>

LoadFiles ==
    { AbsentFile, EmptyFile, GarbageFile, UndecodableFile,
      write_json(<< <<"next_id", 2>>, <<"items", <<ForeignItem>> >>, <<"owner", 7>> >>),
      write_json(<< <<"next_id", 2>>, <<"items", <<SparseItem>> >> >>),
      write_json(<<>>),
      write_json(<< <<"items", LoadItems>> >>),
      write_json(<< <<"next_id", 3>> >>),
      write_json(<< <<"next_id", 3>>, <<"items", LoadItems>> >>),
      write_json(<< <<"items", <<LoadItems[2]>> >>, <<"next_id", 2>> >>) }

\* the menu choices of the load specification
LoadChoiceInputs == {<<"2">>, <<"3">>, <<"5">>, <<"6">>, <<"7">>}

InitLoad ==
    /\ cfgFile \in {AbsentFile, UndecodableFile}
    /\ dbFile \in LoadFiles
    /\ pc = "main"
    /\ db = NoDb
    /\ attempts = 0
    /\ now = 0
    /\ out = NoOut
    /\ inp = NoInp
    /\ issued = <<>>
    /\ accessed = FALSE
    /\ loggedIn = FALSE
    /\ cfgWritten = FALSE

NextLoad ==
    \/ EnsureRegistered
    \/ RegisterPrompt
    \/ LoginStart
    \/ LoginAttempt
    \/ LoadDbMain
    \/ MenuChoice(LoadChoiceInputs)
    \/ ListEntries
    \/ SearchEntries
    \/ DeleteEntry
    \/ Pause
    \/ StartRun
    \/ Tick

SpecLoad == InitLoad /\ [][NextLoad]_vars

\* the states SpecEdit starts from are states of Spec
EditStartReached ==
    /\ pc = "menu"
    /\ now = 0
    /\ db.val.next_id = 3
    /\ Len(db.val.items) = 2
    /\ dbFile = save_db(db)
    /\ db.val.items[1].val.name = <<>>
    /\ db.val.items[2].val.name = <<"G", "m">>

\* ------------------------------------------------------------------ claims
Ids(d) == [i \in 1..Len(d.val.items) |-> d.val.items[i].val.id]

\* the store passwords.json holds, when it holds one
OnFile == IF dbFile.kind = "json" THEN ParseDb(dbFile.obj) ELSE NoDb

\* config.json holds a master hash
Registered == cfgFile.kind = "json" /\ HasMasterHash(cfgFile.obj)

\* C1: the ids Add assigns are strictly increasing over the whole history
\* (all runs, with edits, deletions and reloads in between), so no id, deleted
\* or not, is assigned twice, also when the store was emptied in between.
C1_IdsStrictlyIncreasing ==
    \A i \in 1..Len(issued) : \A j \in 1..Len(issued) :
        i < j => issued[i] < issued[j]

\* An Add has just put its item into a store that a deletion had emptied.
C1_Witness_AddAfterEmptied ==
    /\ pc = "pause"
    /\ inp.op = "add"
    /\ Len(issued) = 2
    /\ Len(db.val.items) = 1
    /\ db.val.items[1].val.id = 2

\* C2: in every state next_id is greater than the id of every item, in
\* menu_loop's db (so right after load_db returned it), in the store on file
\* and in the store load_db would return.
StoreInv(d) == \A i \in 1..Len(d.val.items) : d.val.next_id > d.val.items[i].val.id

C2_NextIdAboveAllIds ==
    /\ StoreInv(db)
    /\ StoreInv(OnFile)
    /\ StoreInv(load_db(dbFile).db)

\* load_db has just returned a store with items, read from the file.
C2_Witness_LoadedWithItems ==
    /\ pc \in {"add", "list", "search", "edit", "delete"}
    /\ Len(db.val.items) = 2
    /\ db = OnFile

\* C3: no two items of the store share an id, and no step changes the id of an
\* item: Edit, List and Search leave the ids as they
\* are, Add keeps the ids there and appends one, Delete only removes.
UniqueIds(d) ==
    \A i \in 1..Len(d.val.items) : \A j \in 1..Len(d.val.items) :
        i # j => d.val.items[i].val.id # d.val.items[j].val.id

C3_IdsUniqueAndFixed ==
    [][ /\ UniqueIds(db')
        /\ pc \in {"edit", "list", "search"} => Ids(db') = Ids(db)
        /\ pc = "add" /\ pc' = "pause" =>
            /\ Len(db'.val.items) = Len(db.val.items) + 1
            /\ SubSeq(Ids(db'), 1, Len(db.val.items)) = Ids(db)
        /\ pc = "delete" =>
            \A i \in 1..Len(db'.val.items) : \E j \in 1..Len(db.val.items) :
                db'.val.items[i] = db.val.items[j]
      ]_vars

\* An Edit has changed an item of a store of two.
C3_Witness_EditedAmongTwo ==
    /\ pc = "pause"
    /\ inp.op = "edit"
    /\ out.msg = "Entry updated."
    /\ Ids(db) = <<1, 2>>

\* C4: passwords.json is read or written only in a run in which login() has
\* returned; a run that ends in sys.exit(1) has not touched it, and the
\* process is past login only when login returned.
C4_StoreOnlyAfterLogin ==
    /\ accessed => loggedIn
    /\ pc = "exit1" => ~accessed /\ ~loggedIn
    /\ pc \in {"load", "menu", "add", "list", "search", "edit", "delete", "pause",
               "exit0"} => loggedIn

\* A run has ended after three wrong passwords without touching the store.
C4_Witness_FailedLogin ==
    /\ pc = "exit1"
    /\ attempts = 3
    /\ ~accessed
    /\ Registered

\* C5: with a master hash in the config, login prompts at most 3 times; it
\* returns right after a prompt whose digest equals the stored hash and only
\* then; it keeps prompting only after a mismatch and while fewer than 3
\* prompts were issued; it exits with failure exactly after a third mismatch.
LastDigestMatches == sha256(inp.password) = Get(cfgFile.obj, "master_hash")

C5_LoginOutcome ==
    /\ attempts <= 3
    /\ pc = "load" => inp.op = "login" /\ LastDigestMatches /\ attempts \in 1..3
    /\ pc = "login_prompt" /\ attempts > 0 =>
        inp.op = "login" /\ ~LastDigestMatches /\ attempts < 3
    /\ pc = "exit1" /\ Registered =>
        inp.op = "login" /\ ~LastDigestMatches /\ attempts = 3
    /\ inp.op = "login" /\ ~LastDigestMatches /\ attempts = 3 => pc = "exit1"

\* login has returned at the third prompt, after two mismatches.
C5_Witness_ThirdPromptMatches ==
    /\ pc = "load"
    /\ attempts = 3
    /\ inp.password = <<"m">>

\* C6: once config.json holds a master hash, no step changes the file and
\* ensure_registered never reaches its prompts, in this run or a later one.
C6_RegistrationIdempotent ==
    [][Registered => cfgFile' = cfgFile /\ pc' # "register"]_vars

\* A later run (ids were issued before it) has passed ensure_registered, the
\* clock has moved on and the config is the one of the first registration.
C6_Witness_LaterRun ==
    /\ pc = "login"
    /\ Len(issued) > 0
    /\ Registered
    /\ now > Get(cfgFile.obj, "created_at")

TextFields == {"name", "username", "password", "auth_key", "website", "notes"}

\* the text typed as an id names an item of the store
Found(d, idText) ==
    IntOk(idText) /\ \E i \in 1..Len(d.val.items) : d.val.items[i].val.id = IntOf(idText)

\* where that item is
Pos(d, idText) == CHOOSE i \in 1..Len(d.val.items) : d.val.items[i].val.id = IntOf(idText)

\* a step in which edit_entry ran, from its first prompt to its return
EditStep == pc = "edit" /\ pc' = "pause"

\* a step in which delete_entry ran
DeleteStep == pc = "delete" /\ pc' = "pause"

\* C7: when Edit runs on an item of the store, each of the six text fields
\* supplied non-empty (as edit_entry holds it, stripped; the password only
\* after "y") holds the supplied value afterwards, each field supplied blank is
\* as before, the id is as before, and every other item, the number of items
\* and next_id are as before.
C7_EditUpdatesSuppliedFields ==
    [][EditStep /\ Found(db, inp'.eid) =>
        LET i == Pos(db, inp'.eid) IN
        /\ \A f \in TextFields :
            db'.val.items[i].val[f] =
                IF inp'[f] # <<>> THEN inp'[f] ELSE db.val.items[i].val[f]
        /\ db'.val.items[i].val.id = db.val.items[i].val.id
        /\ Len(db'.val.items) = Len(db.val.items)
        /\ \A j \in 1..Len(db.val.items) : j # i => db'.val.items[j] = db.val.items[j]
        /\ db'.val.next_id = db.val.next_id
      ]_vars

\* An Edit has set the name and the website of item 1 and kept its username
\* and notes, which were not blank.
C7_Witness_SomeFieldsSupplied ==
    /\ pc = "pause"
    /\ inp.op = "edit"
    /\ inp.eid = <<"1">>
    /\ inp.name = <<"b">>
    /\ inp.website = <<"w">>
    /\ inp.username = <<>>
    /\ inp.notes = <<>>
    /\ inp.password = <<>>
    /\ db.val.items[1].val.name = <<"b">>
    /\ db.val.items[1].val.username = <<"a", "l">>
    /\ db.val.items[1].val.notes = <<"n">>
    /\ db.val.items[1].val.password = <<"q">>

\* C8 as claimed: Edit reports "changed", sets updated_at and saves exactly
\* when a field's value after the edit differs from its value before; else it
\* reports "unchanged", keeps updated_at and leaves the file alone.
C8_Original_ChangedIffValueDiffers ==
    [][EditStep /\ Found(db, inp'.eid) =>
        LET i == Pos(db, inp'.eid) IN
        IF \E f \in TextFields : db'.val.items[i].val[f] # db.val.items[i].val[f]
        THEN /\ out'.msg = "Entry updated."
             /\ db'.val.items[i].val.updated_at = now
             /\ dbFile' = write_json(DumpDb(db'))
        ELSE /\ out'.msg = "No changes made."
             /\ db'.val.items[i].val.updated_at = db.val.items[i].val.updated_at
             /\ dbFile' = dbFile
      ]_vars

\* C8 as amended: Edit reports "changed", sets updated_at to the time of the
\* edit and saves exactly when at least one field was supplied non-empty,
\* whether or not its value differs from the current one; when all six are
\* blank it reports "unchanged" and the store, in memory and on file, is as
\* before.
C8_ChangedIffFieldSupplied ==
    [][EditStep /\ Found(db, inp'.eid) =>
        LET i == Pos(db, inp'.eid) IN
        IF \E f \in TextFields : inp'[f] # <<>>
        THEN /\ out'.msg = "Entry updated."
             /\ db'.val.items[i].val.updated_at = now
             /\ dbFile' = write_json(DumpDb(db'))
        ELSE /\ out'.msg = "No changes made."
             /\ db' = db
             /\ dbFile' = dbFile
      ]_vars

\* An Edit that supplied the name item 1 already had has been reported as an
\* update, a second after the item was created.
C8_Witness_SameValueSupplied ==
    /\ pc = "pause"
    /\ inp.op = "edit"
    /\ inp.eid = <<"1">>
    /\ inp.name = <<"G", "m">>
    /\ \A f \in TextFields \ {"name"} : inp[f] = <<>>
    /\ \A f \in TextFields :
        db.val.items[1].val[f] = AddLocals(CHOOSE a \in AddInputs : a.name # <<>>)[f]
    /\ out.msg = "Entry updated."
    /\ db.val.items[1].val.updated_at = 1
    /\ db.val.items[2].val.updated_at = 0

\* C9: when Delete runs on an item of the store and the answer is "y", the
\* store afterwards holds every other item, unchanged and in the same number,
\* and no item with that id, next_id is as before and the file holds that
\* store; with any other answer it reports the cancellation and the store, in
\* memory and on file, is as before.
C9_DeleteSemantics ==
    [][DeleteStep /\ Found(db, inp'.eid) =>
        IF inp'.flag = <<"y">>
        THEN /\ out'.msg = "Entry deleted."
             /\ Len(db'.val.items) = Len(db.val.items) - 1
             /\ \A j \in 1..Len(db.val.items) :
                    db.val.items[j].val.id # IntOf(inp'.eid) =>
                        \E k \in 1..Len(db'.val.items) : db'.val.items[k] = db.val.items[j]
             /\ \A k \in 1..Len(db'.val.items) : db'.val.items[k].val.id # IntOf(inp'.eid)
             /\ db'.val.next_id = db.val.next_id
             /\ dbFile'.kind = "json" /\ ParseDb(dbFile'.obj) = db'
        ELSE /\ out'.msg = "Deletion cancelled."
             /\ db' = db
             /\ dbFile' = dbFile
      ]_vars

\* Item 1 of a store of two has been deleted; item 2 is left.
C9_Witness_DeletedOneOfTwo ==
    /\ pc = "pause"
    /\ inp.op = "delete"
    /\ inp.eid = <<"1">>
    /\ inp.flag = <<"y">>
    /\ out.msg = "Entry deleted."
    /\ Ids(db) = <<2>>
    /\ db.val.next_id = 3

\* C10: whenever load_db has returned the store to menu_loop, or an operation
\* has returned to menu_loop, passwords.json holds a store and it equals the
\* store in memory.
C10_FileEqualsMemory ==
    pc \in {"add", "list", "search", "edit", "delete", "pause", "exit0"} =>
        dbFile.kind = "json" /\ ParseDb(dbFile.obj) = db

\* An Edit that changed an item has returned to menu_loop.
C10_Witness_AfterEdit ==
    /\ pc = "pause"
    /\ inp.op = "edit"
    /\ out.msg = "Entry updated."
    /\ db.val.items[1].val.name = <<"b">>
    /\ OnFile.val.items[1].val.name = <<"b">>

\* C11: for the store menu_loop holds in any reachable state (without items,
\* with one, with several), save_db followed by load_db returns that store,
\* every field of every item included, and load_db leaves the file save_db
\* wrote as it is (no reset).
C11_SaveLoadRoundTrip ==
    pc \in {"add", "list", "search", "edit", "delete", "pause"} =>
        LET f == save_db(db)
            r == load_db(f)
        IN  r.db = db /\ r.file = f /\ f = write_json(DumpDb(db))

\* The last item of the store has been deleted: the store has no items and
\* next_id 3.
C11_Witness_EmptiedStore ==
    /\ pc = "pause"
    /\ inp.op = "delete"
    /\ out.msg = "Entry deleted."
    /\ db.val.items = <<>>
    /\ db.val.next_id = 3

\* k occurs in hay, letter for letter
OccursIn(k, hay) ==
    \E i \in 1..(Len(hay) - Len(k) + 1) : \A j \in 1..Len(k) : hay[i + j - 1] = k[j]

\* the four searched fields of an item, one after the other, in lower case
Concatenated(it) ==
    Lower(it.val.name \o it.val.username \o it.val.website \o it.val.notes)

\* the four searched fields of an item with one space between them, in lower
\* case
SpaceJoined(it) ==
    Lower(it.val.name \o <<" ">> \o it.val.username \o <<" ">> \o it.val.website
          \o <<" ">> \o it.val.notes)

\* the line of Search's table for an item: id, name, username, website,
\* notes and the minute of the last update
Shown(it) ==
    <<it.val.id, it.val.name, it.val.username, it.val.website, it.val.notes,
      it.val.updated_at \div 60>>

\* what Search is to report for the lower-case keyword k when the items
\* selected are sel
SearchReport(k, sel) ==
    IF k = <<>> THEN Said("Keyword cannot be empty.")
    ELSE IF sel = <<>> THEN Said("No matching entries.")
    ELSE [msg |-> "table", rows |-> [i \in 1..Len(sel) |-> Shown(sel[i])], id |-> 0]

\* a search has run and is reporting
Searched == pc = "pause" /\ inp.op = "search"

\* C12 as claimed: Search reports exactly the items whose name, username,
\* website and notes, concatenated and lower-cased, contain the stripped,
\* lower-cased keyword; nothing matching is reported as such, and an empty
\* or blank keyword is rejected.
C12_Original_MatchesConcatenation ==
    Searched =>
        LET Hit(it) == OccursIn(inp.keyword, Concatenated(it)) IN
        out = SearchReport(inp.keyword, SelectSeq(db.val.items, Hit))

\* C12 as amended: the text searched is the four fields joined by single
\* spaces, so a keyword matches only inside one field or across the space
\* between two neighbouring fields; the password and the auth key are not
\* searched.
C12_MatchesSpaceJoined ==
    Searched =>
        LET Hit(it) == OccursIn(inp.keyword, SpaceJoined(it)) IN
        out = SearchReport(inp.keyword, SelectSeq(db.val.items, Hit))

\* The keyword "m a" has been found across the space between name "Gm" and
\* username "al" of the one item of a store of two that has them.
C12_Witness_FoundAcrossFields ==
    /\ Searched
    /\ inp.keyword = <<"m", " ", "a">>
    /\ Len(db.val.items) = 2
    /\ Len(out.rows) = 1
    /\ out.rows[1][2] = <<"G", "m">>
    /\ out.rows[1][3] = <<"a", "l">>

\* a step in which search_entries ran
SearchStep == pc = "search" /\ pc' = "pause"

\* a pass of menu_loop that took the else branch
InvalidChoiceStep == pc = "menu" /\ pc' = "pause"

\* the step left the dict and passwords.json as they were and is back in the
\* loop, at its pause()
Contained == db' = db /\ dbFile' = dbFile /\ pc' = "pause"

\* C13: an id that is no number, an id no item has, an empty keyword, a
\* deletion not confirmed and an invalid menu choice are each reported, leave
\* the store in memory and the file as they were and go on with the menu
\* loop; once logged in, the process ends only by the Exit choice.
C13_ValidationErrorsContained ==
    [][ /\ (EditStep \/ DeleteStep) /\ ~IntOk(inp'.eid) =>
            out' = Said("Invalid ID.") /\ Contained
        /\ (EditStep \/ DeleteStep) /\ IntOk(inp'.eid) /\ ~Found(db, inp'.eid) =>
            out' = Said("Entry not found.") /\ Contained
        /\ SearchStep /\ inp'.keyword = <<>> =>
            out' = Said("Keyword cannot be empty.") /\ Contained
        /\ DeleteStep /\ Found(db, inp'.eid) /\ inp'.flag # <<"y">> =>
            out' = Said("Deletion cancelled.") /\ Contained
        /\ InvalidChoiceStep =>
            /\ out' = Said("Invalid choice.")
            /\ dbFile' = dbFile
            /\ db' = OnFile'
            /\ db # NoDb => db' = db
        /\ loggedIn' => pc' # "exit1"
        /\ loggedIn /\ pc \notin {"exit0", "exit1", "crash"}
           /\ pc' \in {"exit0", "exit1", "crash"} =>
            pc = "menu" /\ pc' = "exit0" /\ out' = Said("Goodbye!")
      ]_vars

\* A deletion of an item of a store of two was not confirmed.
C13_Witness_DeletionNotConfirmed ==
    /\ pc = "pause"
    /\ inp.op = "delete"
    /\ inp.eid = <<"2">>
    /\ inp.flag = <<"n">>
    /\ out.msg = "Deletion cancelled."
    /\ Len(db.val.items) = 2
    /\ loggedIn

\* a step in which main's load_db() ran, to its return or to its error
LoadStep == pc = "load" /\ pc' # "load"

\* passwords.json is absent, empty or cannot be parsed
Unparsable(file) == file.kind \in {"absent", "empty", "garbage", "undecodable"}

\* C14: Load never fails; when the file is absent, empty or unparsable it
\* writes a fresh store (next_id 1, no items) to the file and the menu works
\* on that store, and in every other case the file is left as it is, with
\* all its records, and the menu works on what it holds.
C14_LoadSelfHealing ==
    [][ /\ LoadStep => pc' = "menu"
        /\ LoadStep /\ Unparsable(dbFile) => dbFile' = [kind |-> "json", obj |-> DumpDb(FreshDb)]
        /\ LoadStep /\ ~Unparsable(dbFile) => dbFile' = dbFile
        /\ pc = "menu" /\ pc' # "menu" => dbFile' = dbFile /\ db' = ParseDb(dbFile.obj)
      ]_vars

\* a step in which add_entry ran
AddStep == pc = "add" /\ pc' = "pause"

\* C15: whatever the store and the six values typed, all empty included, Add
\* makes one item whose id is the next_id of before, raises next_id by
\* exactly 1, appends the item after the items there were, which stay as
\* they are, and saves; the k-th Add since the fresh store reports id k,
\* whatever was deleted in between.
C15_AddEffect ==
    [][ AddStep =>
          /\ Len(db'.val.items) = Len(db.val.items) + 1
          /\ SubSeq(db'.val.items, 1, Len(db.val.items)) = db.val.items
          /\ db'.val.items[Len(db'.val.items)].val =
                [id |-> db.val.next_id, name |-> inp'.name, username |-> inp'.username,
                 password |-> inp'.password, auth_key |-> inp'.auth_key,
                 website |-> inp'.website, notes |-> inp'.notes, updated_at |-> now]
          /\ db'.val.next_id = db.val.next_id + 1
          /\ out'.id = db.val.next_id
          /\ dbFile'.kind = "json" /\ ParseDb(dbFile'.obj) = db'
          /\ Len(issued') = Len(issued) + 1
          /\ issued'[Len(issued')] = Len(issued')
      ]_vars

\* The second Add since the fresh store, all six values empty, made item 2
\* after item 1 had been deleted.
C15_Witness_EmptyAddAfterDelete ==
    /\ pc = "pause"
    /\ inp.op = "add"
    /\ out.id = 2
    /\ issued = <<1, 2>>
    /\ Len(db.val.items) = 1
    /\ db.val.items[1].val.id = 2
    /\ \A f \in TextFields : db.val.items[1].val[f] = <<>>

\* a field of an item, empty when the item has no such field
Cell(it, f) == IF f \in DOMAIN it.val THEN it.val[f] ELSE <<>>

\* the line of List's table for an item: id, the six text fields and the
\* minute of the last update
Listed(it) ==
    <<Cell(it, "id"), Cell(it, "name"), Cell(it, "username"), Cell(it, "password"),
      Cell(it, "auth_key"), Cell(it, "website"), Cell(it, "notes"),
      IF "updated_at" \in DOMAIN it.val THEN it.val.updated_at \div 60 ELSE <<>> >>

\* a step in which list_entries ran
ListStep == pc = "list" /\ pc' = "pause"

\* C16: List reports every item of the store exactly once, in ascending order
\* of id whatever the order of the list, and List, Search and the lookup by
\* id (an id not found, a deletion not confirmed) leave the store in memory
\* and the file as they were.
C16_ListOrderedPureRead ==
    [][ /\ ListStep =>
            /\ Len(out'.rows) = Len(db.val.items)
            /\ \A k \in 1..Len(db.val.items) :
                   Cardinality({i \in 1..Len(out'.rows) :
                                    out'.rows[i] = Listed(db.val.items[k])}) = 1
            /\ \A i \in 1..Len(out'.rows) : \A j \in (i + 1)..Len(out'.rows) :
                   out'.rows[i][1] <= out'.rows[j][1]
            /\ (db.val.items = <<>>) <=> (out'.msg = "No entries found.")
        /\ ListStep \/ SearchStep => db' = db /\ dbFile' = dbFile
        /\ DeleteStep /\ out'.msg \in {"Entry not found.", "Deletion cancelled."} =>
            db' = db /\ dbFile' = dbFile
      ]_vars

\* List has reported item 1 before item 2 of a store that holds item 2 before
\* item 1.
C16_Witness_ListedOutOfOrderStore ==
    /\ pc = "pause"
    /\ inp.op = "list"
    /\ Len(db.val.items) = 2
    /\ db.val.items[1].val.id = 2
    /\ db.val.items[2].val.id = 1
    /\ out.rows = <<Listed(db.val.items[2]), Listed(db.val.items[1])>>
    /\ dbFile = [kind |-> "json", obj |-> << <<"next_id", 3>>, <<"items", LoadItems>> >>]

\* C17: in an Edit of an item, when the answer to "Change password?" is not
\* y the new password is not read and the item's password is afterwards what
\* it was, whatever else was typed; when the answer is y and the new
\* password is blank, the password is what it was too.
C17_SecretGatedByIntent ==
    [][EditStep /\ Found(db, inp'.eid) =>
        LET i == Pos(db, inp'.eid) IN
        /\ inp'.flag # <<"y">> =>
            /\ inp'.password = <<>>
            /\ db'.val.items[i].val.password = db.val.items[i].val.password
        /\ inp'.flag = <<"y">> /\ inp'.password = <<>> =>
            db'.val.items[i].val.password = db.val.items[i].val.password
      ]_vars

\* An Edit answered n to "Change password?", set the five other fields and
\* left the password p1 of item 1.
C17_Witness_OthersChangedSecretKept ==
    /\ pc = "pause"
    /\ inp.op = "edit"
    /\ inp.eid = <<"1">>
    /\ inp.flag = <<"n">>
    /\ inp.password = <<>>
    /\ \A f \in TextFields \ {"password"} :
        inp[f] # <<>> /\ db.val.items[1].val[f] = inp[f]
    /\ db.val.items[1].val.password = <<"p", "1">>
    /\ out.msg = "Entry updated."

\* C18: a text field of an item that is not empty is not empty after any step,
\* as long as the item is in the store: no Edit empties a field.
C18_EditCannotClearField ==
    [][ \A i \in 1..Len(db.val.items) : \A j \in 1..Len(db'.val.items) :
            db'.val.items[j].val.id = db.val.items[i].val.id =>
                \A f \in TextFields :
                    db.val.items[i].val[f] # <<>> => db'.val.items[j].val[f] # <<>>
      ]_vars

\* An Edit of item 1, whose six fields are not empty, was given six blanks
\* (and y to "Change password?") and changed nothing.
C18_Witness_AllBlankEdit ==
    /\ pc = "pause"
    /\ inp.op = "edit"
    /\ inp.eid = <<"1">>
    /\ inp.flag = <<"y">>
    /\ \A f \in TextFields : inp[f] = <<>> /\ db.val.items[1].val[f] # <<>>
    /\ out.msg = "No changes made."

\* the process is inside login()
InLogin == pc \in {"login", "login_prompt"}

\* C19 as claimed: a run that ended in login failure has changed neither
\* config.json nor passwords.json, and it ended after 3 prompts.
C19_Original_FailedRunWritesNothing ==
    pc = "exit1" => ~cfgWritten /\ ~accessed /\ attempts = 3

\* C19 as amended: login writes nothing, so a run that ends in login failure
\* leaves passwords.json as it was and changes config.json only if it is the
\* run that registered the master password, before its login; once
\* registered, config.json does not change again. Every run's login starts
\* at 0 prompts and fails only after 3, however many runs failed before.
C19_NoLockoutPersistence ==
    [][ /\ InLogin => cfgFile' = cfgFile /\ dbFile' = dbFile
        /\ ~loggedIn' => dbFile' = dbFile
        /\ cfgFile' # cfgFile =>
            pc = "register" /\ ~Registered /\ Registered' /\ ~cfgWritten /\ cfgWritten'
        /\ cfgWritten' /\ ~cfgWritten => cfgFile' # cfgFile
        /\ pc = "login" /\ pc' = "login_prompt" => attempts' = 0
        /\ pc # "exit1" /\ pc' = "exit1" =>
            pc = "login_prompt" /\ attempts' = 3 /\ ~accessed'
      ]_vars

\* A run has ended in login failure after 3 prompts; it is not the run that
\* registered, and no run before it got past login (passwords.json has never
\* been written).
C19_Witness_FailedRunAfterFailedRuns ==
    /\ pc = "exit1"
    /\ attempts = 3
    /\ Registered
    /\ ~cfgWritten
    /\ dbFile.kind # "json"

\* the digests of the non-empty passwords that can be typed at "Create master
\* password: " and typed again at "Confirm master password: "
ConfirmedDigests ==
    { sha256(Strip(r1)) : r1 \in { r \in CreateInputs :
            Strip(r) # <<>> /\ \E r2 \in MasterInputs : Strip(r2) = Strip(r) } }

\* ensure_registered has returned in this run
PastRegistration == pc \notin {"main", "register", "exit0", "exit1", "crash"}

\* C20: whenever ensure_registered has returned, config.json holds a master
\* hash that is the digest of a non-empty password typed the same twice, so
\* login never takes its "no master config" exit: the process exits with
\* status 1 only after 3 prompts that did not match.
C20_NoMasterConfigUnreachable ==
    /\ PastRegistration =>
        /\ cfgFile.kind = "json"
        /\ \E i \in 1..Len(cfgFile.obj) :
            /\ cfgFile.obj[i][1] = "master_hash"
            /\ cfgFile.obj[i][2] \in ConfirmedDigests
            /\ cfgFile.obj[i][2] # sha256(<<>>)
    /\ pc = "exit1" => attempts = 3 /\ inp.op = "login"

\* ensure_registered has just written config.json and returned; login has
\* read the hash and is at its first prompt.
C20_Witness_LoginAfterRegistration ==
    /\ pc = "login_prompt"
    /\ attempts = 0
    /\ cfgWritten
    /\ Get(cfgFile.obj, "master_hash") = sha256(<<"m">>)

====
